---- MODULE Spec2Model ----
(***************************************************************************)
(* Task Manager API: the validation middleware (middleware/validation.js), *)
(* the error handler (middleware/errorHandler.js), the async wrapper       *)
(* (middleware/asyncHandler.js), the task routes (routes/tasks.js) and the *)
(* start-up of the process (server.js).                                    *)
(*                                                                         *)
(* Strings are sequences of atoms.  An atom is one character ("<", ">",    *)
(* "/", "$", " ") or a run of word characters (\w+) that the regular       *)
(* expressions of sanitizeString can only treat as a whole: "scr" and      *)
(* "ipt" are the two halves of the word "script", so that the word can be  *)
(* split, nested and re-joined; every other atom ("pending", "b", ...) is  *)
(* a word that contains no part of "script".  All atoms are lower case, so *)
(* the i flag of the script expression changes nothing here.               *)
(*                                                                         *)
(* JSON values are tagged records: Str(s), Num, Bool, Null, Arr(e) and     *)
(* Obj(f, p), where f maps the own keys to values and p is the prototype   *)
(* (NoProto for Object.prototype, which has none of the keys read here).   *)
(***************************************************************************)
EXTENDS Integers, Sequences, FiniteSets, TLC

VARIABLES
  str,         \* sanitizer specification: the input string
  sanitized,   \* sanitizer specification: sanitizeString(str), once computed
  env,         \* process.env.NODE_ENV
  store,       \* the Tasks of the collection
  nextId,      \* the number of ObjectIds generated so far, plus one
  req,         \* the request in flight: route, params.id, body
  payload,     \* the body of the request as it was received
  pc,          \* the middleware of the route's chain that runs next
  res,         \* the response sent for the request
  err,         \* the error passed to next(err)
  calls,       \* the persistence calls made for the request
  handlerRan,  \* whether the route handler has run for the request
  nexts,       \* the errors asyncHandler gave to next for the request
  proc         \* the process of server.js: its position, connection and log

vars == <<str, sanitized, env, store, nextId, req, payload, pc, res, err, calls, handlerRan,
          nexts, proc>>

(***************************************************************************)
(* Bounds of the model                                                     *)
(***************************************************************************)
MaxChunks == 5      \* chunks per input string of the sanitizer specification

(***************************************************************************)
(* Strings                                                                 *)
(***************************************************************************)
NonWord == {"<", ">", "/", "$", " "}

IsWord(a) == a \notin NonWord

IsSpace(a) == a = " "

\* "<script" followed by a word boundary, at position i of s
ScriptOpenAt(s, i) ==
  /\ i + 2 <= Len(s)
  /\ s[i] = "<" /\ s[i + 1] = "scr" /\ s[i + 2] = "ipt"
  /\ (i + 3 > Len(s) \/ ~IsWord(s[i + 3]))

\* "</script>" at position j of s
ScriptCloseAt(s, j) ==
  /\ j + 4 <= Len(s)
  /\ s[j] = "<" /\ s[j + 1] = "/" /\ s[j + 2] = "scr" /\ s[j + 3] = "ipt"
  /\ s[j + 4] = ">"

\* The script expression at i: "<script\b", then text in which every "<"
\* does not start "</script>", then "</script>": it ends at the first
\* "</script>" after the opening.
ScriptMatchAt(s, i) ==
  ScriptOpenAt(s, i) /\ \E j \in (i + 3)..Len(s) : ScriptCloseAt(s, j)

ScriptMatchEnd(s, i) ==
  LET j == CHOOSE k \in (i + 3)..Len(s) :
             ScriptCloseAt(s, k) /\ \A m \in (i + 3)..(k - 1) : ~ScriptCloseAt(s, m)
  IN  j + 4

\* "<[^>]+>" at i: "<", one or more characters other than ">", then ">"
TagMatchAt(s, i) ==
  /\ i + 2 <= Len(s)
  /\ s[i] = "<" /\ s[i + 1] # ">"
  /\ \E j \in (i + 2)..Len(s) : s[j] = ">"

TagMatchEnd(s, i) ==
  CHOOSE j \in (i + 2)..Len(s) : s[j] = ">" /\ \A m \in (i + 2)..(j - 1) : s[m] # ">"

\* "\$\w+" at i: "$" and the longest run of word characters after it
OperatorMatchAt(s, i) ==
  i + 1 <= Len(s) /\ s[i] = "$" /\ IsWord(s[i + 1])

OperatorMatchEnd(s, i) ==
  CHOOSE j \in (i + 1)..Len(s) :
    /\ \A m \in (i + 1)..j : IsWord(s[m])
    /\ (j + 1 > Len(s) \/ ~IsWord(s[j + 1]))

\* String.prototype.replace(re, '') with the g flag: the matches are found
\* left to right, each search resuming after the previous match.
RECURSIVE replaceScripts(_, _)
replaceScripts(s, i) ==
  IF i > Len(s) THEN <<>>
  ELSE IF ScriptMatchAt(s, i) THEN replaceScripts(s, ScriptMatchEnd(s, i) + 1)
  ELSE <<s[i]>> \o replaceScripts(s, i + 1)

RECURSIVE replaceTags(_, _)
replaceTags(s, i) ==
  IF i > Len(s) THEN <<>>
  ELSE IF TagMatchAt(s, i) THEN replaceTags(s, TagMatchEnd(s, i) + 1)
  ELSE <<s[i]>> \o replaceTags(s, i + 1)

RECURSIVE replaceOperators(_, _)
replaceOperators(s, i) ==
  IF i > Len(s) THEN <<>>
  ELSE IF OperatorMatchAt(s, i) THEN replaceOperators(s, OperatorMatchEnd(s, i) + 1)
  ELSE <<s[i]>> \o replaceOperators(s, i + 1)

\* Faulty variant of sanitizeString: the tag expression is not applied
sanitizeString_NoTagPass(s) ==
  replaceOperators(replaceScripts(s, 1), 1)

\* Faulty variant of sanitizeString: the operator tokens are removed before the tags
sanitizeString_OperatorsFirst(s) ==
  replaceTags(replaceOperators(replaceScripts(s, 1), 1), 1)

\* String.prototype.replace(re, '') without the g flag: the first match only
replaceFirstTag(s) ==
  IF \E i \in 1..Len(s) : TagMatchAt(s, i)
  THEN LET i == CHOOSE k \in 1..Len(s) :
                  TagMatchAt(s, k) /\ \A m \in 1..(k - 1) : ~TagMatchAt(s, m)
       IN  SubSeq(s, 1, i - 1) \o SubSeq(s, TagMatchEnd(s, i) + 1, Len(s))
  ELSE s

\* Faulty variant of sanitizeString: the tag expression without the g flag
sanitizeString_FirstTagOnly(s) ==
  replaceOperators(replaceFirstTag(replaceScripts(s, 1)), 1)

\* sanitizeString on a string (the typeof test is made by the callers, which
\* hand over the text of a string value)
sanitizeString(s) ==
  replaceOperators(replaceTags(replaceScripts(s, 1), 1), 1)

\* String.prototype.trim
RECURSIVE trimStart(_)
trimStart(s) ==
  IF s # <<>> /\ IsSpace(Head(s)) THEN trimStart(Tail(s)) ELSE s

RECURSIVE trimEnd(_)
trimEnd(s) ==
  IF s # <<>> /\ IsSpace(s[Len(s)]) THEN trimEnd(SubSeq(s, 1, Len(s) - 1)) ELSE s

trim(s) == trimEnd(trimStart(s))

\* s contains the substring w
Contains(s, w) ==
  \E i \in 1..(Len(s) - Len(w) + 1) : SubSeq(s, i, i + Len(w) - 1) = w

ScriptOpenTag == <<"<", "scr", "ipt", ">">>

ScriptCloseTag == <<"<", "/", "scr", "ipt", ">">>

(***************************************************************************)
(* JSON values and JavaScript objects                                      *)
(***************************************************************************)
Str(s) == [t |-> "string", s |-> s]

Num(n) == [t |-> "number", n |-> n]

Bool(b) == [t |-> "boolean", b |-> b]

Null == [t |-> "null"]

Undefined == [t |-> "undefined"]

Arr(e) == [t |-> "array", e |-> e]

NoProto == [t |-> "none"]

Obj(f, p) == [t |-> "object", f |-> f, p |-> p]

\* A key is a string, hence a sequence of atoms
K(name) == <<name>>

ProtoKey == K("__proto__")

\* The typeof operator
typeof(v) ==
  CASE v.t \in {"object", "array", "null"} -> "object"
    [] OTHER -> v.t

\* The own enumerable keys of an object or array (the keys that for..in
\* yields and hasOwnProperty accepts): the indices of an array are its keys.
OwnKeys(v) ==
  CASE v.t = "object" -> DOMAIN v.f
    [] v.t = "array" -> {K(ToString(i - 1)) : i \in 1..Len(v.e)}
    [] OTHER -> {}

OwnValue(v, k) ==
  IF v.t = "object" THEN v.f[k]
  ELSE v.e[CHOOSE i \in 1..Len(v.e) : K(ToString(i - 1)) = k]

\* Property read obj[key] (and the destructuring of req.body): the own
\* property, else the property of the prototype chain.
RECURSIVE Get(_, _)
Get(v, k) ==
  IF v.t = "array" THEN (IF k \in OwnKeys(v) THEN OwnValue(v, k) ELSE Undefined)
  ELSE IF v.t # "object" THEN Undefined
  ELSE IF k \in DOMAIN v.f THEN v.f[k]
  ELSE IF v.p.t = "object" THEN Get(v.p, k)
  ELSE Undefined

\* key.startsWith('$')
startsWithDollar(k) == k # <<>> /\ Head(k) = "$"

\* Faulty variant of sanitizeValue: nested objects are copied, not sanitized
sanitizeValue_Shallow(v) ==
  IF v.t = "string" THEN Str(sanitizeString(v.s)) ELSE v

\* The value sanitizeObject stores under one key (lines 57-63)
RECURSIVE sanitizeObject(_)
sanitizeValue(v) ==
  IF typeof(v) = "string" THEN Str(sanitizeString(v.s))
  ELSE IF typeof(v) = "object" THEN sanitizeObject(v)
  ELSE v

\* sanitizeObject.  The result is a fresh {} filled by sanitized[key] = ...;
\* for the key "__proto__" (an own key of an object that JSON.parse built)
\* that assignment runs the __proto__ setter of Object.prototype: an object
\* or null becomes the prototype of the result, any other value is ignored,
\* and in no case does the result get an own key "__proto__".
sanitizeObject(obj) ==
  IF typeof(obj) # "object" \/ obj.t = "null" THEN obj
  ELSE LET keys == {k \in OwnKeys(obj) : ~startsWithDollar(k)}
           set(k) == sanitizeValue(OwnValue(obj, k))
           proto == IF ProtoKey \in keys /\ typeof(set(ProtoKey)) = "object"
                    THEN set(ProtoKey) ELSE NoProto
       IN  Obj([k \in keys \ {ProtoKey} |-> set(k)], proto)

(***************************************************************************)
(* The validators, as functions of the request body: the new req.body, the *)
(* messages pushed to errors, in order, and whether the destructuring      *)
(* const { title, status, description } = req.body threw a TypeError       *)
(* (req.body null or undefined).                                           *)
(***************************************************************************)
TitleRequired == "Title is required and must be a non-empty string"

TitleNonEmpty == "Title must be a non-empty string"

StatusEnum == "Status must be either 'pending' or 'completed'"

DescriptionString == "Description must be a string"

AtLeastOneField == "At least one valid field (title, status, or description) must be provided"

\* !v
Falsy(v) ==
  \/ v.t \in {"undefined", "null"}
  \/ v.t = "string" /\ v.s = <<>>
  \/ v.t = "number" /\ v.n = 0
  \/ v.t = "boolean" /\ ~v.b

StatusValues == {<<"pending">>, <<"completed">>}

If(c, msg) == IF c THEN <<msg>> ELSE <<>>

\* The status rule of both validators (lines 88-92 and 139-143)
statusErrors(status) ==
  If(status # Undefined /\ (typeof(status) # "string" \/ status.s \notin StatusValues),
     StatusEnum)

\* The description rule of both validators (lines 95-97 and 146-148)
descriptionErrors(description) ==
  If(description # Undefined /\ typeof(description) # "string", DescriptionString)

Destructurable(body) == body.t \notin {"null", "undefined"}

\* Faulty variant of validateTaskInput: validation stops at the first failure
validateTaskInput_FirstOnly(body) ==
  LET b == sanitizeObject(body)
      title == Get(b, K("title"))
      status == Get(b, K("status"))
      description == Get(b, K("description"))
      all == If(Falsy(title) \/ typeof(title) # "string" \/ trim(title.s) = <<>>,
                TitleRequired)
             \o statusErrors(status)
             \o descriptionErrors(description)
  IN  IF ~Destructurable(b) THEN [body |-> b, threw |-> TRUE, errors |-> <<>>]
      ELSE [body |-> b, threw |-> FALSE, errors |-> SubSeq(all, 1, 1)]

\* Faulty variant of validateTaskInput: the title is not trimmed before the
\* test for the empty string
validateTaskInput_NoTrim(body) ==
  LET b == sanitizeObject(body)
      title == Get(b, K("title"))
      status == Get(b, K("status"))
      description == Get(b, K("description"))
  IN  IF ~Destructurable(b) THEN [body |-> b, threw |-> TRUE, errors |-> <<>>]
      ELSE [body |-> b, threw |-> FALSE,
            errors |->
              If(Falsy(title) \/ typeof(title) # "string", TitleRequired)
              \o statusErrors(status)
              \o descriptionErrors(description)]

validateTaskInput(body) ==
  LET b == sanitizeObject(body)
      title == Get(b, K("title"))
      status == Get(b, K("status"))
      description == Get(b, K("description"))
  IN  IF ~Destructurable(b) THEN [body |-> b, threw |-> TRUE, errors |-> <<>>]
      ELSE [body |-> b, threw |-> FALSE,
            errors |->
              If(Falsy(title) \/ typeof(title) # "string" \/ trim(title.s) = <<>>,
                 TitleRequired)
              \o statusErrors(status)
              \o descriptionErrors(description)]

validFields == {K("title"), K("status"), K("description")}

\* Faulty variant of validateTaskUpdate: the at-least-one-field rule fires only when
\* the body has no key at all (&& for ||)
validateTaskUpdate_EmptyOnly(body) ==
  LET b == sanitizeObject(body)
      title == Get(b, K("title"))
      status == Get(b, K("status"))
      description == Get(b, K("description"))
      providedFields == OwnKeys(b)
      hasValidField == \E field \in providedFields : field \in {K("title"), K("status"), K("description")}
  IN  IF ~Destructurable(b) THEN [body |-> b, threw |-> TRUE, errors |-> <<>>]
      ELSE [body |-> b, threw |-> FALSE,
            errors |->
              If(~hasValidField /\ providedFields = {}, AtLeastOneField)
              \o If(title # Undefined /\ (typeof(title) # "string" \/ trim(title.s) = <<>>),
                    TitleNonEmpty)
              \o statusErrors(status)
              \o descriptionErrors(description)]

validateTaskUpdate(body) ==
  LET b == sanitizeObject(body)
      title == Get(b, K("title"))
      status == Get(b, K("status"))
      description == Get(b, K("description"))
      providedFields == OwnKeys(b)
      hasValidField == \E field \in providedFields : field \in validFields
  IN  IF ~Destructurable(b) THEN [body |-> b, threw |-> TRUE, errors |-> <<>>]
      ELSE [body |-> b, threw |-> FALSE,
            errors |->
              If(~hasValidField \/ providedFields = {}, AtLeastOneField)
              \o If(title # Undefined /\ (typeof(title) # "string" \/ trim(title.s) = <<>>),
                    TitleNonEmpty)
              \o statusErrors(status)
              \o descriptionErrors(description)]

(***************************************************************************)
(* The sanitizer specification: sanitizeString applied to every string of  *)
(* at most MaxChunks chunks.  A chunk is one atom, or a whole "<script>"   *)
(* or "</script>" tag, so that script blocks fit within the bound.         *)
(***************************************************************************)
Chunks ==
  {<<"<">>, <<">">>, <<"/">>, <<"$">>, <<"scr">>, <<"ipt">>, ScriptOpenTag, ScriptCloseTag}

RECURSIVE ChunkStrings(_)
ChunkStrings(n) ==
  IF n = 0 THEN {<<>>}
  ELSE LET shorter == ChunkStrings(n - 1)
       IN  shorter \cup {c \o s : c \in Chunks, s \in shorter}

NotSanitized == <<"not sanitized">>

Idle == [route |-> "none"]

NoRes == [status |-> 0]

NoErr == [name |-> "none"]

\* The process of server.js: whether MONGODB_URI is set, the statement it
\* is at, the state of the promise of mongoose.connect, the exit code and
\* what it wrote to the console. Serving is the process listening with its
\* connection established.
Serving ==
  [uri |-> TRUE, at |-> "running", connect |-> "resolved", exitCode |-> 0,
   log |-> <<"Server is running", "Connected to MongoDB">>]

InitSan ==
  /\ str \in ChunkStrings(MaxChunks)
  /\ sanitized = NotSanitized
  /\ env = "production"
  /\ store = {}
  /\ nextId = 1
  /\ req = Idle
  /\ payload = Undefined
  /\ pc = "san"
  /\ res = NoRes
  /\ err = NoErr
  /\ calls = <<>>
  /\ handlerRan = FALSE
  /\ nexts = <<>>
  /\ proc = Serving

SanitizeString ==
  /\ pc = "san"
  /\ sanitized = NotSanitized
  /\ sanitized' = sanitizeString(str)
  /\ UNCHANGED <<str, env, store, nextId, req, payload, pc, res, err, calls, handlerRan, nexts,
                 proc>>

NextSan == SanitizeString

SpecSan == InitSan /\ [][NextSan]_vars

\* C7: the output of sanitizeString contains neither "<script>" nor
\* "</script>", whatever the input (nested and split tags included).
C7_NoScriptTagInOutput ==
  sanitized # NotSanitized =>
    ~Contains(sanitized, ScriptOpenTag) /\ ~Contains(sanitized, ScriptCloseTag)

\* C7 witness: an input with a script tag nested inside a split one has been
\* sanitized.
C7_Witness ==
  /\ sanitized # NotSanitized
  /\ Contains(str, <<"<", "scr", "<", "scr", "ipt", ">">>)

\* C8: the output of sanitizeString has no "$" immediately followed by a
\* word character.
C8_NoOperatorTokenInOutput ==
  sanitized # NotSanitized =>
    \A i \in 1..(Len(sanitized) - 1) : ~(sanitized[i] = "$" /\ IsWord(sanitized[i + 1]))

\* C8 witness: an input in which a tag sits between "$" and a word has been
\* sanitized (removing the tag joins "$" and the word).
C8_Witness ==
  /\ sanitized # NotSanitized
  /\ str = <<"$", "<", "scr", ">", "ipt">>

(***************************************************************************)
(* Identifiers.  An id string is known by its length, by whether all its   *)
(* characters are hexadecimal digits, and (to tell ids apart) a number.    *)
(***************************************************************************)
Id(len, hex, n) == [len |-> len, hex |-> hex, n |-> n]

ObjectId(n) == Id(24, TRUE, n)

\* mongoose.Types.ObjectId.isValid on a string: the 24-character hexadecimal
\* format of the store
isValid(id) == id.len = 24 /\ id.hex

NoId == Id(0, FALSE, 0)

(***************************************************************************)
(* Failures and the error handler                                          *)
(***************************************************************************)
\* An Error object: name, message, code and statusCode (0 when absent),
\* errors and keyPattern (with a flag telling whether the property exists)
Failure(name, message) ==
  [name |-> name, hasMessage |-> TRUE, message |-> message, code |-> 0, statusCode |-> 0,
   hasErrors |-> FALSE, errors |-> <<>>, hasKeyPattern |-> FALSE, keyPattern |-> <<>>,
   hasStack |-> TRUE]

SchemaFailure(messages) ==
  [Failure("ValidationError", "Task validation failed") EXCEPT
     !.hasErrors = TRUE, !.errors = messages]

TypeError == Failure("TypeError", "Cannot destructure property 'title' of 'req.body'")

\* The body {error: err.message}: JSON.stringify leaves out a property whose
\* value is undefined
MessageBody(e) == IF e.hasMessage THEN [error |-> e.message] ELSE <<>>

\* `Duplicate value for field: ${field}`, field the first key of keyPattern
DuplicateMessage(keyPattern) ==
  IF keyPattern = <<>> THEN "Duplicate value for field: undefined"
  ELSE IF Head(keyPattern) = "title" THEN "Duplicate value for field: title"
  ELSE "Duplicate value for field: _id"

\* statusCode and errorResponse of errorHandler before the stack is added, or
\* threw when Object.values(err.errors) or Object.keys(err.keyPattern) throws
\* on a missing property
errorResponse(e) ==
  IF e.name = "ValidationError"
    THEN [threw |-> ~e.hasErrors, statusCode |-> 400,
          body |-> [error |-> "Validation failed", details |-> e.errors]]
  ELSE IF e.name = "CastError"
    THEN [threw |-> FALSE, statusCode |-> 400, body |-> [error |-> "Invalid ID format"]]
  ELSE IF e.code = 11000
    THEN [threw |-> ~e.hasKeyPattern, statusCode |-> 400,
          body |-> [error |-> DuplicateMessage(e.keyPattern)]]
  ELSE IF e.name \in {"MongoNetworkError", "MongoTimeoutError"}
    THEN [threw |-> FALSE, statusCode |-> 503,
          body |-> [error |-> "Service temporarily unavailable"]]
  ELSE IF e.statusCode # 0
    THEN [threw |-> FALSE, statusCode |-> e.statusCode, body |-> MessageBody(e)]
  ELSE IF e.hasMessage /\ e.message # ""
    THEN [threw |-> FALSE, statusCode |-> 500, body |-> [error |-> e.message]]
  ELSE [threw |-> FALSE, statusCode |-> 500, body |-> [error |-> "Internal server error"]]

\* Faulty variant of errorHandler: the stack is left out in production only
errorHandler_StackUnlessProduction(e, mode) ==
  LET mapped == errorResponse(e)
  IN  IF mode # "production" /\ e.hasStack /\ ~mapped.threw
      THEN [mapped EXCEPT !.body = [stack |-> "stack"] @@ mapped.body]
      ELSE mapped

\* errorHandler: the status code and the JSON body sent; in development mode
\* errorResponse.stack = err.stack, which JSON.stringify leaves out when the
\* failure has no stack
errorHandler(e, mode) ==
  LET mapped == errorResponse(e)
  IN  IF mode = "development" /\ e.hasStack /\ ~mapped.threw
      THEN [mapped EXCEPT !.body = [stack |-> "stack"] @@ mapped.body]
      ELSE mapped

(***************************************************************************)
(* The Task model (models/task.js) and the mongoose calls of the routes    *)
(***************************************************************************)
\* The schema: title a required String, status a String of the enum,
\* description a String; only the own properties of the document are read.
SchemaErrors(fields) ==
  LET own(k) == IF k \in OwnKeys(fields) THEN OwnValue(fields, k) ELSE Undefined
  IN  If(own(K("title")) = Undefined \/ own(K("title")) = Str(<<>>),
         "Path title is required.")
      \o If(own(K("status")) # Undefined /\ own(K("status")) \notin {Str(s) : s \in StatusValues},
            "status is not a valid enum value.")

\* The Task that Task.create(fields) builds: status defaults to 'pending'
NewTask(fields, id, now) ==
  [id |-> id,
   title |-> OwnValue(fields, K("title")),
   status |-> IF K("status") \in OwnKeys(fields) THEN OwnValue(fields, K("status"))
              ELSE Str(<<"pending">>),
   description |-> IF K("description") \in OwnKeys(fields)
                   THEN OwnValue(fields, K("description")) ELSE Undefined,
   createdAt |-> now]

\* Faulty variant of UpdatedTask: createdAt and _id of the fields supplied
\* replace the stored ones too
UpdatedTask_Overwrite(task, fields) ==
  [task EXCEPT
     !.title = IF K("title") \in OwnKeys(fields) THEN OwnValue(fields, K("title")) ELSE @,
     !.status = IF K("status") \in OwnKeys(fields) THEN OwnValue(fields, K("status")) ELSE @,
     !.description = IF K("description") \in OwnKeys(fields)
                     THEN OwnValue(fields, K("description")) ELSE @,
     !.createdAt = IF K("createdAt") \in OwnKeys(fields)
                   THEN OwnValue(fields, K("createdAt")) ELSE @,
     !.id = IF K("_id") \in OwnKeys(fields) THEN OwnValue(fields, K("_id")) ELSE @]

\* The Task that findByIdAndUpdate(id, fields) leaves: the fields supplied
\* replace the stored ones
UpdatedTask(task, fields) ==
  [task EXCEPT
     !.title = IF K("title") \in OwnKeys(fields) THEN OwnValue(fields, K("title")) ELSE @,
     !.status = IF K("status") \in OwnKeys(fields) THEN OwnValue(fields, K("status")) ELSE @,
     !.description = IF K("description") \in OwnKeys(fields)
                     THEN OwnValue(fields, K("description")) ELSE @]

findById(id) == {task \in store : task.id = id}

\* The failures a persistence call can end with for reasons of the store
StoreFailures ==
  {Failure("MongoNetworkError", "connect ECONNREFUSED"),
   Failure("MongoTimeoutError", "Server selection timed out"),
   Failure("Error", "boom")}

(***************************************************************************)
(* The requests and the middleware chains of routes/tasks.js               *)
(***************************************************************************)
PostTasks == "POST /tasks"

GetTasks == "GET /tasks"

GetTask == "GET /tasks/:id"

PutTask == "PUT /tasks/:id"

DeleteTask == "DELETE /tasks/:id"

Routes == {PostTasks, GetTasks, GetTask, PutTask, DeleteTask}

\* Faulty variant of FirstStage: PUT validates the body before the id
FirstStage_BodyFirst(route) ==
  CASE route = PostTasks -> "validateTaskInput"
    [] route = PutTask -> "validateTaskUpdate"
    [] route = GetTasks -> "handler"
    [] OTHER -> "validateObjectId"

\* The first middleware of each route
FirstStage(route) ==
  CASE route = PostTasks -> "validateTaskInput"
    [] route = GetTasks -> "handler"
    [] OTHER -> "validateObjectId"

Sent(statusCode, body) == [status |-> statusCode, body |-> body]

ValidationFailed(errors) == Sent(400, [error |-> "Validation failed", details |-> errors])

\* A request arrives and enters the chain of its route
Receive(route, id, body) ==
  /\ pc \in {"idle", "done"}
  /\ req' = [route |-> route, id |-> id, body |-> body]
  /\ payload' = body
  /\ pc' = FirstStage(route)
  /\ res' = NoRes
  /\ err' = NoErr
  /\ calls' = <<>>
  /\ handlerRan' = FALSE
  /\ nexts' = <<>>
  /\ UNCHANGED <<str, sanitized, env, store, nextId, proc>>

\* Faulty variant of ValidateObjectId: next() is called whatever the id
ValidateObjectId_NoCheck ==
  /\ pc = "validateObjectId"
  /\ pc' = IF req.route = PutTask THEN "validateTaskUpdate" ELSE "handler"
  /\ UNCHANGED <<str, sanitized, env, store, nextId, req, payload, res, err, calls, handlerRan,
                 nexts, proc>>

\* validateObjectId
ValidateObjectId ==
  /\ pc = "validateObjectId"
  /\ IF ~isValid(req.id)
     THEN /\ res' = Sent(400, [error |-> "Invalid task ID format"])
          /\ pc' = "done"
     ELSE /\ res' = res
          /\ pc' = IF req.route = PutTask THEN "validateTaskUpdate" ELSE "handler"
  /\ UNCHANGED <<str, sanitized, env, store, nextId, req, payload, err, calls, handlerRan,
                 nexts, proc>>

\* Faulty variant of Validated: next() is called after the 400 report too
Validated_NextAnyway(v) ==
  /\ req' = [req EXCEPT !.body = v.body]
  /\ IF v.threw
     THEN /\ err' = TypeError
          /\ res' = res
          /\ pc' = "errorHandler"
     ELSE /\ res' = IF Len(v.errors) > 0 THEN ValidationFailed(v.errors) ELSE res
          /\ err' = err
          /\ pc' = "handler"
  /\ UNCHANGED <<str, sanitized, env, store, nextId, payload, calls, handlerRan, nexts, proc>>

\* Faulty variant of Validated: req.body is not replaced by its sanitized copy
Validated_KeepBody(v) ==
  /\ req' = req
  /\ IF v.threw
     THEN /\ err' = TypeError
          /\ res' = res
          /\ pc' = "errorHandler"
     ELSE IF Len(v.errors) > 0
     THEN /\ res' = ValidationFailed(v.errors)
          /\ err' = err
          /\ pc' = "done"
     ELSE /\ res' = res
          /\ err' = err
          /\ pc' = "handler"
  /\ UNCHANGED <<str, sanitized, env, store, nextId, payload, calls, handlerRan, nexts, proc>>

\* What a validator does with its result: a throw goes to the error handler
\* (express passes the exception of a middleware to next), a non-empty
\* errors array is sent as a 400, and otherwise next() runs the handler.
Validated(v) ==
  /\ req' = [req EXCEPT !.body = v.body]
  /\ IF v.threw
     THEN /\ err' = TypeError
          /\ res' = res
          /\ pc' = "errorHandler"
     ELSE IF Len(v.errors) > 0
     THEN /\ res' = ValidationFailed(v.errors)
          /\ err' = err
          /\ pc' = "done"
     ELSE /\ res' = res
          /\ err' = err
          /\ pc' = "handler"
  /\ UNCHANGED <<str, sanitized, env, store, nextId, payload, calls, handlerRan, nexts, proc>>

ValidateTaskInput ==
  /\ pc = "validateTaskInput"
  /\ Validated(validateTaskInput(req.body))

ValidateTaskUpdate ==
  /\ pc = "validateTaskUpdate"
  /\ Validated(validateTaskUpdate(req.body))

\* The catch block of the POST, GET /:id, PUT and DELETE handlers
Caught(e) == Sent(400, MessageBody(e))

\* Faulty variant of NotFound: the body of the first version of the routes
NotFound_Message == Sent(404, [message |-> "Task not found"])

NotFound == Sent(404, [error |-> "Task not found"])

\* Faulty variant of Called: a call that failed is issued a second time
Called_Retry(op, e) ==
  calls' = IF e.name = "none"
           THEN Append(calls, [op |-> op, threw |-> e])
           ELSE calls \o <<[op |-> op, threw |-> e], [op |-> op, threw |-> e]>>

\* A persistence call of the request and the failure it threw (NoErr when
\* it returned)
Called(op, e) == calls' = Append(calls, [op |-> op, threw |-> e])

\* router.post("/"): Task.create(req.body)
CreateTask ==
  /\ pc = "handler" /\ req.route = PostTasks
  /\ handlerRan' = TRUE
  /\ pc' = "done"
  /\ \/ \E e \in StoreFailures :
          /\ Called("create", e)
          /\ res' = Caught(e)
          /\ UNCHANGED <<store, nextId>>
     \/ /\ SchemaErrors(req.body) # <<>>
        /\ Called("create", SchemaFailure(SchemaErrors(req.body)))
        /\ res' = Caught(SchemaFailure(SchemaErrors(req.body)))
        /\ UNCHANGED <<store, nextId>>
     \/ /\ SchemaErrors(req.body) = <<>>
        /\ Called("create", NoErr)
        /\ LET task == NewTask(req.body, ObjectId(nextId), nextId)
           IN  /\ store' = store \cup {task}
               /\ res' = Sent(201, [task |-> task])
        /\ nextId' = nextId + 1
  /\ UNCHANGED <<str, sanitized, env, req, payload, err, nexts, proc>>

\* How the promise of a wrapped handler settles
Resolved == [rejected |-> FALSE, reason |-> NoErr]

Rejected(e) == [rejected |-> TRUE, reason |-> e]

\* Faulty variant of asyncHandler: the rejection is swallowed
asyncHandler_NoCatch(settled) == <<>>

\* asyncHandler(fn): Promise.resolve(fn(req, res, next)).catch(next), as the
\* arguments of the calls of next it makes once fn's promise has settled
asyncHandler(settled) == IF settled.rejected THEN <<settled.reason>> ELSE <<>>

\* router.get("/"), wrapped in asyncHandler: fn awaits Task.find() and sends
\* the Tasks; a rejection goes to next(err) and so to the error handler
FindTasks ==
  /\ pc = "handler" /\ req.route = GetTasks
  /\ handlerRan' = TRUE
  /\ \E settled \in {Resolved} \cup {Rejected(e) : e \in StoreFailures} :
       /\ Called("find", settled.reason)
       /\ res' = IF settled.rejected THEN res ELSE Sent(200, [tasks |-> store])
       /\ nexts' = asyncHandler(settled)
  /\ err' = IF nexts' # <<>> THEN nexts'[1] ELSE err
  /\ pc' = IF nexts' # <<>> THEN "errorHandler" ELSE "done"
  /\ UNCHANGED <<str, sanitized, env, store, nextId, req, payload, proc>>

\* router.get("/:id"): Task.findById(req.params.id)
FindTask ==
  /\ pc = "handler" /\ req.route = GetTask
  /\ handlerRan' = TRUE
  /\ pc' = "done"
  /\ \/ \E e \in StoreFailures :
          /\ Called("findById", e)
          /\ res' = Caught(e)
     \/ /\ findById(req.id) = {}
        /\ Called("findById", NoErr)
        /\ res' = NotFound
     \/ \E task \in findById(req.id) :
          /\ Called("findById", NoErr)
          /\ res' = Sent(200, [task |-> task])
  /\ UNCHANGED <<str, sanitized, env, store, nextId, req, payload, err, nexts, proc>>

\* Faulty variant of UpdateTask: findByIdAndUpdate with upsert, which stores
\* a Task under an id that has none
UpdateTask_Upsert ==
  /\ pc = "handler" /\ req.route = PutTask
  /\ handlerRan' = TRUE
  /\ pc' = "done"
  /\ \/ \E e \in StoreFailures :
          /\ Called("findByIdAndUpdate", e)
          /\ res' = Caught(e)
          /\ store' = store
     \/ /\ findById(req.id) = {}
        /\ Called("findByIdAndUpdate", NoErr)
        /\ LET blank == [id |-> req.id, title |-> Undefined, status |-> Str(<<"pending">>),
                         description |-> Undefined, createdAt |-> nextId]
               updated == UpdatedTask(blank, req.body)
           IN  /\ store' = store \cup {updated}
               /\ res' = Sent(200, [task |-> updated])
     \/ \E task \in findById(req.id) :
          LET updated == UpdatedTask(task, req.body)
          IN  /\ Called("findByIdAndUpdate", NoErr)
              /\ store' = (store \ {task}) \cup {updated}
              /\ res' = Sent(200, [task |-> updated])
  /\ UNCHANGED <<str, sanitized, env, nextId, req, payload, err, nexts, proc>>

\* Faulty variant of UpdateTask: the body as it was received is given to
\* findByIdAndUpdate
UpdateTask_RawBody ==
  /\ pc = "handler" /\ req.route = PutTask
  /\ handlerRan' = TRUE
  /\ pc' = "done"
  /\ \/ \E e \in StoreFailures :
          /\ Called("findByIdAndUpdate", e)
          /\ res' = Caught(e)
          /\ store' = store
     \/ /\ findById(req.id) = {}
        /\ Called("findByIdAndUpdate", NoErr)
        /\ res' = NotFound
        /\ store' = store
     \/ \E task \in findById(req.id) :
          LET updated == UpdatedTask(task, payload)
          IN  /\ Called("findByIdAndUpdate", NoErr)
              /\ store' = (store \ {task}) \cup {updated}
              /\ res' = Sent(200, [task |-> updated])
  /\ UNCHANGED <<str, sanitized, env, nextId, req, payload, err, nexts, proc>>

\* router.put("/:id"): Task.findByIdAndUpdate(req.params.id, req.body,
\* { new: true, runValidators: true })
UpdateTask ==
  /\ pc = "handler" /\ req.route = PutTask
  /\ handlerRan' = TRUE
  /\ pc' = "done"
  /\ \/ \E e \in StoreFailures :
          /\ Called("findByIdAndUpdate", e)
          /\ res' = Caught(e)
          /\ store' = store
     \/ /\ findById(req.id) = {}
        /\ Called("findByIdAndUpdate", NoErr)
        /\ res' = NotFound
        /\ store' = store
     \/ \E task \in findById(req.id) :
          LET updated == UpdatedTask(task, req.body)
          IN  /\ Called("findByIdAndUpdate", NoErr)
              /\ store' = (store \ {task}) \cup {updated}
              /\ res' = Sent(200, [task |-> updated])
  /\ UNCHANGED <<str, sanitized, env, nextId, req, payload, err, nexts, proc>>

\* router.delete("/:id"): Task.findByIdAndDelete(req.params.id)
RemoveTask ==
  /\ pc = "handler" /\ req.route = DeleteTask
  /\ handlerRan' = TRUE
  /\ pc' = "done"
  /\ \/ \E e \in StoreFailures :
          /\ Called("findByIdAndDelete", e)
          /\ res' = Caught(e)
          /\ store' = store
     \/ /\ findById(req.id) = {}
        /\ Called("findByIdAndDelete", NoErr)
        /\ res' = NotFound
        /\ store' = store
     \/ \E task \in findById(req.id) :
          /\ Called("findByIdAndDelete", NoErr)
          /\ store' = store \ {task}
          /\ res' = Sent(200, [message |-> "Task deleted"])
  /\ UNCHANGED <<str, sanitized, env, nextId, req, payload, err, nexts, proc>>

\* app.use(errorHandler): the error given to next(err) is answered
ErrorHandler ==
  /\ pc = "errorHandler"
  /\ LET r == errorHandler(err, env)
     IN  IF r.threw
         THEN res' = Sent(500, <<>>)   \* the default handler of express answers
         ELSE res' = Sent(r.statusCode, r.body)
  /\ pc' = "done"
  /\ UNCHANGED <<str, sanitized, env, store, nextId, req, payload, err, calls, handlerRan,
                 nexts, proc>>

(***************************************************************************)
(* The requests of the model                                               *)
(***************************************************************************)
MaxTasks == 2       \* Tasks created in one behaviour

DollarKey == <<"$", "where">>

OtherKey == K("priority")

AllKeys == {K("title"), K("status"), K("description"), DollarKey, OtherKey, ProtoKey}

\* The object with the properties given, Undefined standing for "no such
\* property"; JSON.parse makes every key, "__proto__" too, an own property.
Object(title, status, description, dollar, other, proto) ==
  LET all == [k \in AllKeys |->
                CASE k = K("title") -> title
                  [] k = K("status") -> status
                  [] k = K("description") -> description
                  [] k = DollarKey -> dollar
                  [] k = OtherKey -> other
                  [] k = ProtoKey -> proto]
  IN  Obj([k \in {x \in AllKeys : all[x] # Undefined} |-> all[k]], NoProto)

Only(k, v) == Obj([x \in {k} |-> v], NoProto)

TitleInputs ==
  {Str(<<>>), Str(<<" ">>), Str(<<"a">>), Str(<<" ", "a", " ">>), Str(<<"<", "b", ">">>),
   Str(<<" ", "$", "ne">>), Str(<<"<", "b", ">", "a", "$", "ne">>), Num(1), Null}

StatusInputs ==
  {Str(<<>>), Str(<<"pending">>), Str(<<"completed">>), Str(<<"done">>),
   Str(<<"pending", "<", "b", ">">>), Str(<<"$", "ne", "completed">>), Num(0), Null}

DescriptionInputs ==
  {Str(<<"x">>), Str(ScriptOpenTag \o <<"x">> \o ScriptCloseTag), Num(1), Null,
   Arr(<<Str(<<"$", "ne">>)>>)}

DollarInputs == {Str(<<"x">>), Only(K("a"), Num(1))}

OtherInputs ==
  {Num(1),
   Obj([k \in {<<"$", "gt">>, K("a")} |-> IF k = K("a") THEN Str(<<"<", "b", ">", "x">>) ELSE Num(1)],
       NoProto),
   Arr(<<Str(<<"$", "ne">>), Num(1)>>)}

ProtoInputs ==
  {Only(K("title"), Str(<<"a">>)),
   Only(K("status"), Str(<<"done">>)),
   Object(Str(<<>>), Str(<<"done">>), Num(1), Undefined, Undefined, Undefined),
   Str(<<"a">>),
   Null}

Opt(S) == S \cup {Undefined}

\* The bodies given to the validators in the validator specification
ValidatorBodies ==
  {Object(t, s, d, w, o, p) :
     t \in Opt(TitleInputs), s \in Opt(StatusInputs), d \in Opt(DescriptionInputs),
     w \in Opt(DollarInputs), o \in Opt(OtherInputs), p \in Opt(ProtoInputs)}
  \cup {Null, Undefined, Arr(<<>>), Arr(<<Str(<<"a">>)>>)}

\* A payload with a recognized field and the keys createdAt, id and _id
WithIdentity ==
  Obj([k \in {K("title"), K("createdAt"), K("id"), K("_id")} |->
         IF k = K("title") THEN Str(<<"a">>)
         ELSE IF k = K("createdAt") THEN Num(0)
         ELSE Str(<<"f">>)],
      NoProto)

\* The bodies of the requests of the full specification
RequestBodies ==
  {Object(Undefined, Undefined, Undefined, Undefined, Undefined, Undefined),
   Only(K("title"), Str(<<"a">>)),
   Only(K("title"), Str(<<" ">>)),
   Only(K("status"), Str(<<"completed">>)),
   Object(Str(<<"a">>), Str(<<"pending", "<", "b", ">">>), Undefined, Undefined, Undefined,
          Undefined),
   Only(DollarKey, Str(<<"x">>)),
   Only(ProtoKey, Only(K("title"), Str(<<"a">>))),
   Object(Str(<<"<", "b", ">", "a", "$", "ne">>), Str(<<"completed">>), Str(<<"x">>),
          Str(<<"x">>), Undefined, Undefined),
   Object(Str(<<>>), Str(<<"done">>), Num(1), Undefined, Undefined, Undefined),
   WithIdentity}

\* The ids of the requests: the ObjectIds of the Tasks that can exist and one
\* more, and strings that are no ObjectId (empty, short, 12 characters, 24
\* characters not all hexadecimal, 25 characters)
RequestIds ==
  {ObjectId(n) : n \in 1..(MaxTasks + 1)}
  \cup {Id(0, TRUE, 1), Id(3, TRUE, 1), Id(12, TRUE, 1), Id(12, FALSE, 1), Id(24, FALSE, 1),
        Id(25, TRUE, 1)}

Envs == {"production", "development", "test"}

Init ==
  /\ str = <<>>
  /\ sanitized = NotSanitized
  /\ env \in Envs
  /\ store = {}
  /\ nextId = 1
  /\ req = Idle
  /\ payload = Undefined
  /\ pc = "idle"
  /\ res = NoRes
  /\ err = NoErr
  /\ calls = <<>>
  /\ handlerRan = FALSE
  /\ nexts = <<>>
  /\ proc = Serving

Request ==
  \/ /\ nextId <= MaxTasks
     /\ \E body \in RequestBodies : Receive(PostTasks, NoId, body)
  \/ Receive(GetTasks, NoId, Undefined)
  \/ \E id \in RequestIds : Receive(GetTask, id, Undefined)
  \/ \E id \in RequestIds, body \in RequestBodies : Receive(PutTask, id, body)
  \/ \E id \in RequestIds : Receive(DeleteTask, id, Undefined)

Next ==
  \/ Request
  \/ ValidateObjectId
  \/ ValidateTaskInput
  \/ ValidateTaskUpdate
  \/ CreateTask
  \/ FindTasks
  \/ FindTask
  \/ UpdateTask
  \/ RemoveTask
  \/ ErrorHandler

Spec == Init /\ [][Next]_vars

(***************************************************************************)
(* The start-up of server.js and the requests it serves                    *)
(***************************************************************************)
\* console.error(lines) and process.exit(code)
Exited(code, lines) == [proc EXCEPT !.at = "exited", !.exitCode = code, !.log = @ \o lines]

\* if (!MONGODB_URI) { console.error(...); process.exit(1); }
CheckUri ==
  /\ proc.at = "checkUri"
  /\ IF ~proc.uri
     THEN proc' = Exited(1, <<"Missing MONGODB_URI environment variable">>)
     ELSE proc' = [proc EXCEPT !.at = "start"]
  /\ UNCHANGED <<str, sanitized, env, store, nextId, req, payload, pc, res, err, calls,
                 handlerRan, nexts>>

\* start(), not awaited: it runs up to await mongoose.connect(MONGODB_URI)
Start ==
  /\ proc.at = "start"
  /\ proc' = [proc EXCEPT !.at = "listen", !.connect = "pending"]
  /\ UNCHANGED <<str, sanitized, env, store, nextId, req, payload, pc, res, err, calls,
                 handlerRan, nexts>>

\* app.listen(3000, ...), after the routes and the error handler are mounted
Listen ==
  /\ proc.at = "listen"
  /\ proc' = [proc EXCEPT !.at = "running", !.log = @ \o <<"Server is running">>]
  /\ UNCHANGED <<str, sanitized, env, store, nextId, req, payload, pc, res, err, calls,
                 handlerRan, nexts>>

\* The promise of mongoose.connect resolves: start() logs and returns
ConnectSucceeds ==
  /\ proc.at = "running" /\ proc.connect = "pending"
  /\ proc' = [proc EXCEPT !.connect = "resolved", !.log = @ \o <<"Connected to MongoDB">>]
  /\ UNCHANGED <<str, sanitized, env, store, nextId, req, payload, pc, res, err, calls,
                 handlerRan, nexts>>

\* Faulty variant of ConnectFails: the catch block of the first versions of
\* server.js, console.error(err) and no exit
ConnectFails_LogOnly ==
  /\ proc.at = "running" /\ proc.connect = "pending"
  /\ proc' = [proc EXCEPT !.connect = "rejected", !.log = @ \o <<"Failed to connect to MongoDB">>]
  /\ UNCHANGED <<str, sanitized, env, store, nextId, req, payload, pc, res, err, calls,
                 handlerRan, nexts>>

\* The promise of mongoose.connect rejects: the catch block of start() logs
\* the message (the stack too in development) and calls process.exit(1)
ConnectFails ==
  /\ proc.at = "running" /\ proc.connect = "pending"
  /\ LET lines == <<"Failed to connect to MongoDB">>
                    \o (IF env = "development" THEN <<"Stack">> ELSE <<>>)
     IN  proc' = [Exited(1, lines) EXCEPT !.connect = "rejected"]
  /\ UNCHANGED <<str, sanitized, env, store, nextId, req, payload, pc, res, err, calls,
                 handlerRan, nexts>>

\* A request is received and its middleware and handler run while the
\* process listens, whatever the state of the connection: nothing in
\* server.js or in the routes waits for start(). A persistence call issued
\* while the connection is pending is held back by mongoose; it settles as
\* usual once the connection is established, and fails if it is not
\* established in time.
Serve ==
  /\ proc.at = "running"
  /\ \/ Request
     \/ ValidateObjectId
     \/ ValidateTaskInput
     \/ ValidateTaskUpdate
     \/ ErrorHandler
     \/ /\ proc.connect = "resolved"
        /\ (CreateTask \/ FindTasks \/ FindTask \/ UpdateTask \/ RemoveTask)
     \/ /\ proc.connect = "pending"
        /\ (CreateTask \/ FindTasks \/ FindTask \/ UpdateTask \/ RemoveTask)
        /\ calls'[Len(calls')].threw # NoErr

InitStart ==
  /\ str = <<>>
  /\ sanitized = NotSanitized
  /\ env \in Envs
  /\ store = {}
  /\ nextId = 1
  /\ req = Idle
  /\ payload = Undefined
  /\ pc = "idle"
  /\ res = NoRes
  /\ err = NoErr
  /\ calls = <<>>
  /\ handlerRan = FALSE
  /\ nexts = <<>>
  /\ \E uri \in BOOLEAN :
       proc = [uri |-> uri, at |-> "checkUri", connect |-> "none", exitCode |-> 0, log |-> <<>>]

NextStart ==
  \/ CheckUri
  \/ Start
  \/ Listen
  \/ ConnectSucceeds
  \/ ConnectFails
  \/ Serve

SpecStart == InitStart /\ [][NextStart]_vars

(***************************************************************************)
(* The validator specification: each validator applied to every body of    *)
(* ValidatorBodies, as the unit and property tests call them.              *)
(***************************************************************************)
InitVal ==
  /\ str = <<>>
  /\ sanitized = NotSanitized
  /\ env = "production"
  /\ store = {}
  /\ nextId = 1
  /\ \E route \in {PostTasks, PutTask}, body \in ValidatorBodies :
       /\ req = [route |-> route, id |-> IF route = PutTask THEN ObjectId(1) ELSE NoId,
                 body |-> body]
       /\ payload = body
       /\ pc = IF route = PutTask THEN "validateTaskUpdate" ELSE "validateTaskInput"
  /\ res = NoRes
  /\ err = NoErr
  /\ calls = <<>>
  /\ handlerRan = FALSE
  /\ nexts = <<>>
  /\ proc = Serving

NextVal == ValidateTaskInput \/ ValidateTaskUpdate

SpecVal == InitVal /\ [][NextVal]_vars

(***************************************************************************)
(* Claims about the validators (specification SpecVal)                     *)
(***************************************************************************)
Own(v, k) == IF k \in OwnKeys(v) THEN OwnValue(v, k) ELSE Undefined

IsObject(v) == v.t \in {"object", "array"}

Range(s) == {s[i] : i \in 1..Len(s)}

\* The response is the 400 'Validation failed' report and holds msg
Reports(msg) ==
  /\ res.status = 400
  /\ res.body.error = "Validation failed"
  /\ msg \in Range(res.body.details)

ValidatorRan == pc \notin {"validateTaskInput", "validateTaskUpdate"}

BlankTitle(p) ==
  LET title == Own(p, K("title"))
  IN  \/ title = Undefined
      \/ title.t # "string"
      \/ trim(title.s) = <<>>
      \/ trim(sanitizeString(title.s)) = <<>>

\* C1: validateTaskInput answers every payload object whose title is absent,
\* not a string, empty, whitespace-only, or empty or whitespace-only once
\* sanitized, with the 400 report holding the title-required message, and
\* does not call next().
C1_BlankTitleRejected ==
  (ValidatorRan /\ req.route = PostTasks /\ IsObject(payload) /\ BlankTitle(payload))
    => (Reports(TitleRequired) /\ pc = "done")

\* C2: both validators answer every payload whose status is supplied and is
\* not exactly 'pending' or 'completed' with the 400 report holding the
\* status message, and do not call next().
C2_InvalidStatusRejected ==
  (/\ ValidatorRan
   /\ IsObject(payload)
   /\ Own(payload, K("status")) # Undefined
   /\ Own(payload, K("status")) \notin {Str(<<"pending">>), Str(<<"completed">>)})
    => (Reports(StatusEnum) /\ pc = "done")

\* C3: validateTaskUpdate answers every payload object whose keys after
\* sanitization include none of title, status, description with the 400
\* report holding the at-least-one-field message, and does not call next().
C3_NoRecognizedFieldRejected ==
  (/\ ValidatorRan
   /\ req.route = PutTask
   /\ IsObject(payload)
   /\ OwnKeys(req.body) \cap {K("title"), K("status"), K("description")} = {})
    => (Reports(AtLeastOneField) /\ pc = "done")

\* C3 witness: a payload with nothing but a $-prefixed key has been rejected
C3_Witness ==
  /\ req.route = PutTask
  /\ payload = Only(DollarKey, Str(<<"x">>))
  /\ pc = "done"
  /\ Reports(AtLeastOneField)

RECURSIVE NoDollarKey(_)
NoDollarKey(v) ==
  IsObject(v) =>
    /\ \A k \in OwnKeys(v) : ~startsWithDollar(k) /\ NoDollarKey(OwnValue(v, k))
    /\ (v.t = "object" /\ v.p.t = "object") => NoDollarKey(v.p)

\* The paths of own keys of a value
RECURSIVE Paths(_)
Paths(v) ==
  IF ~IsObject(v) THEN {}
  ELSE UNION {{<<k>>} \cup {<<k>> \o path : path \in Paths(OwnValue(v, k))} : k \in OwnKeys(v)}

Read(k) == Get(req.body, K(k))

NonEmptyString(v) == v.t = "string" /\ trim(v.s) # <<>>

StatusViolated ==
  Read("status") # Undefined /\ Read("status") \notin {Str(<<"pending">>), Str(<<"completed">>)}

DescriptionViolated == Read("description") # Undefined /\ Read("description").t # "string"

ViolatedRules ==
  IF req.route = PostTasks
  THEN If(~NonEmptyString(Read("title")), TitleRequired)
       \o If(StatusViolated, StatusEnum)
       \o If(DescriptionViolated, DescriptionString)
  ELSE If(OwnKeys(req.body) \cap {K("title"), K("status"), K("description")} = {},
          AtLeastOneField)
       \o If(Read("title") # Undefined /\ ~NonEmptyString(Read("title")), TitleNonEmpty)
       \o If(StatusViolated, StatusEnum)
       \o If(DescriptionViolated, DescriptionString)

\* C10: the details of a validator's 400 report hold exactly one message per
\* violated rule, in the order title, status, description (validateTaskInput)
\* and at-least-one-field, title, status, description (validateTaskUpdate);
\* the validator calls next() only when no rule is violated.
C10_AllViolationsReported ==
  (ValidatorRan /\ pc # "errorHandler") =>
    IF ViolatedRules = <<>> THEN pc = "handler" /\ res = NoRes
    ELSE pc = "done" /\ res = ValidationFailed(ViolatedRules)

\* C10 witness: a creation payload violating the three rules got the three
\* messages in order
C10_Witness ==
  /\ req.route = PostTasks
  /\ pc = "done"
  /\ res = ValidationFailed(<<TitleRequired, StatusEnum, DescriptionString>>)

(***************************************************************************)
(* Claims about the routes (specification Spec)                            *)
(***************************************************************************)
IdRoutes == {GetTask, PutTask, DeleteTask}

\* C4: a request whose id is not a 24-character hexadecimal string is
\* answered 400 {error: 'Invalid task ID format'} by validateObjectId, which
\* does not call next(): no handler runs and no persistence call is made.
C4_MalformedIdRejected ==
  (req.route \in IdRoutes /\ pc # "validateObjectId" /\ ~(req.id.len = 24 /\ req.id.hex))
    => /\ res = Sent(400, [error |-> "Invalid task ID format"])
       /\ pc = "done"
       /\ calls = <<>>
       /\ ~handlerRan

\* C4 witness: a DELETE with a 12-character id has been rejected
C4_Witness ==
  /\ req.route = DeleteTask
  /\ req.id.len = 12
  /\ pc = "done"
  /\ res.status = 400

\* C5: when the id of a GET, PUT or DELETE /tasks/:id that reached its
\* handler is the id of no Task of the store and the persistence call
\* returns, the answer is 404 {error: 'Task not found'} and the store is
\* unchanged.
C5_UnknownIdNotFound ==
  [][(/\ pc = "handler"
      /\ req.route \in IdRoutes
      /\ findById(req.id) = {}
      /\ Len(calls') > 0
      /\ calls'[Len(calls')].threw = NoErr)
       => (res' = Sent(404, [error |-> "Task not found"]) /\ store' = store)]_vars

\* C5 witness: a PUT for an unknown id was answered 404 while the store
\* holds a Task
C5_Witness ==
  /\ req.route = PutTask
  /\ pc = "done"
  /\ res.status = 404
  /\ store # {}

\* C6: a request whose persistence call fails with MongoNetworkError or
\* MongoTimeoutError is answered 503 {error: 'Service temporarily
\* unavailable'}, on every route, without a stack field in production mode.
C6_StoreUnavailable ==
  (/\ pc = "done"
   /\ calls # <<>>
   /\ calls[Len(calls)].threw.name \in {"MongoNetworkError", "MongoTimeoutError"})
    => /\ res.status = 503
       /\ res.body.error = "Service temporarily unavailable"
       /\ env = "production" => "stack" \notin DOMAIN res.body

\* A validator of the chain answers the request itself
ValidatorStages == {"validateObjectId", "validateTaskInput", "validateTaskUpdate"}

Rejects == pc \in ValidatorStages /\ res'.status = 400

\* C11: when validateObjectId, validateTaskInput or validateTaskUpdate
\* rejects a request, the chain stops there: no route handler has run, no
\* persistence call has been made, the store is the one before the step, and
\* nothing but the arrival of the next request follows the response.
C11_RejectionStopsProcessing ==
  [][/\ Rejects => /\ pc' = "done"
                   /\ ~handlerRan'
                   /\ calls' = <<>>
                   /\ store' = store
     /\ (pc = "done" /\ ~handlerRan)
          => /\ pc' = FirstStage(req'.route)
             /\ ~handlerRan'
             /\ calls' = <<>>
             /\ store' = store]_vars

\* C11 witness: a PUT for a stored Task was rejected by validateTaskUpdate
\* and the store still holds the Task
C11_Witness ==
  /\ req.route = PutTask
  /\ pc = "done"
  /\ res.status = 400
  /\ res.body.error = "Validation failed"
  /\ findById(req.id) # {}
  /\ calls = <<>>
  /\ ~handlerRan

(***************************************************************************)
(* The error handler specification: errorHandler called with every failure *)
(* object of Failures in every mode, as its property tests call it.        *)
(***************************************************************************)
FailureNames == {"ValidationError", "CastError", "MongoNetworkError", "MongoTimeoutError", "Error"}

NotDuplicate == 42          \* an err.code other than 11000

FailureCodes == {0, 11000, NotDuplicate}

FailureStatusCodes == {0, 200, 404, 503}

\* err.message: a text, the empty string, or no message property
FailureMessages ==
  {[has |-> TRUE, text |-> "boom"], [has |-> TRUE, text |-> ""], [has |-> FALSE, text |-> ""]}

\* err.errors / err.keyPattern: the property missing, or its values in order
Missing == [has |-> FALSE, of |-> <<>>]

Holding(values) == [has |-> TRUE, of |-> values]

FailureErrors == {Missing, Holding(<<>>), Holding(<<"m1">>), Holding(<<"m1", "m2">>)}

FailureKeyPatterns == {Missing, Holding(<<"title">>), Holding(<<"_id">>)}

\* Error instances carry a stack; other values given to next(err) do not
Failures ==
  {[name |-> n, hasMessage |-> m.has, message |-> m.text, code |-> c, statusCode |-> sc,
    hasErrors |-> es.has, errors |-> es.of, hasKeyPattern |-> kp.has, keyPattern |-> kp.of,
    hasStack |-> st] :
     n \in FailureNames, m \in FailureMessages, c \in FailureCodes, sc \in FailureStatusCodes,
     es \in FailureErrors, kp \in FailureKeyPatterns, st \in BOOLEAN}

\* process.env.NODE_ENV of the calls, "undefined" when it is not set
Modes == Envs \cup {"undefined"}

InitErr ==
  /\ str = <<>>
  /\ sanitized = NotSanitized
  /\ env \in Modes
  /\ store = {}
  /\ nextId = 1
  /\ req = Idle
  /\ payload = Undefined
  /\ pc = "errorHandler"
  /\ res = NoRes
  /\ err \in Failures
  /\ calls = <<>>
  /\ handlerRan = FALSE
  /\ nexts = <<>>
  /\ proc = Serving

NextErr == ErrorHandler

SpecErr == InitErr /\ [][NextErr]_vars

(***************************************************************************)
(* Claims about the error handler (specification SpecErr)                  *)
(***************************************************************************)
\* The rows of the table of the error handler, in order: whether the failure
\* matches the row, and the status code and body of the row
Rows(e) ==
  <<[matches |-> e.name = "ValidationError", statusCode |-> 400,
     body |-> [error |-> "Validation failed", details |-> e.errors]],
    [matches |-> e.name = "CastError", statusCode |-> 400,
     body |-> [error |-> "Invalid ID format"]],
    [matches |-> e.code = 11000, statusCode |-> 400,
     body |-> [error |-> DuplicateMessage(e.keyPattern)]],
    [matches |-> e.name \in {"MongoNetworkError", "MongoTimeoutError"}, statusCode |-> 503,
     body |-> [error |-> "Service temporarily unavailable"]],
    [matches |-> e.statusCode # 0, statusCode |-> e.statusCode, body |-> MessageBody(e)],
    [matches |-> e.hasMessage /\ e.message # "", statusCode |-> 500, body |-> MessageBody(e)],
    [matches |-> TRUE, statusCode |-> 500, body |-> [error |-> "Internal server error"]]>>

FirstRow(e) ==
  LET rows == Rows(e)
      first == CHOOSE i \in 1..Len(rows) : rows[i].matches /\ \A j \in 1..(i - 1) : ~rows[j].matches
  IN  rows[first]

MatchingRows(e) == {i \in 1..Len(Rows(e)) : Rows(e)[i].matches}

\* The body without its stack field
Strip(body) == [k \in DOMAIN body \ {"stack"} |-> body[k]]

Handled == pc = "done" /\ err # NoErr /\ req = Idle

\* errorHandler ran to its end: res.status(statusCode).json(errorResponse)
Responded == Handled /\ ~errorHandler(err, env).threw

\* C12: the response of errorHandler is the status code and the body (its
\* stack field aside) of the first row of the table that the failure
\* matches, for every failure.
C12_FirstMatchingRow ==
  Handled => /\ res.status = FirstRow(err).statusCode
             /\ Strip(res.body) = FirstRow(err).body

\* C13: for every failure object, the handler sends a JSON response whose
\* body has an error field (a string).
C13_ErrorStringSent ==
  Handled => /\ res.status # 0
             /\ "error" \in DOMAIN res.body

\* The response of errorHandler to the failure in the mode given
Response(e, mode) == Sent(errorHandler(e, mode).statusCode, errorHandler(e, mode).body)

\* The status code and the rest of the body are those of every other mode
SameInAllModes ==
  \A mode \in Modes :
    /\ Response(err, mode).status = res.status
    /\ Strip(Response(err, mode).body) = Strip(res.body)

\* C14 as stated: the body sent has a stack field exactly in development
\* mode, and the status code and the rest of the body do not depend on the
\* mode.
C14_StackIffDevelopment ==
  Responded => /\ ("stack" \in DOMAIN res.body) <=> (env = "development")
               /\ SameInAllModes

\* C14: the body sent has a stack field exactly when the mode is
\* development and the failure object has a stack; in every other mode it
\* has none, and the status code and the rest of the body do not depend on
\* the mode.
C14_StackIffDevelopmentAndTrace ==
  Responded => /\ ("stack" \in DOMAIN res.body) <=> (env = "development" /\ err.hasStack)
               /\ SameInAllModes

\* C14 witness: a store failure answered 503 with its stack in development
\* mode
C14_Witness ==
  /\ Responded
  /\ env = "development"
  /\ err.name = "MongoNetworkError"
  /\ res.status = 503
  /\ "stack" \in DOMAIN res.body

(***************************************************************************)
(* Claims about the start-up (specification SpecStart)                     *)
(***************************************************************************)
Logged(line) == \E i \in 1..Len(proc.log) : proc.log[i] = line

ExitedWith(line) == proc.at = "exited" /\ proc.exitCode # 0 /\ Logged(line)

\* C15: once the check of MONGODB_URI has run with the variable unset, and
\* once the connection attempt has failed, the process has logged the
\* failure and exited with a non-zero code; a process that exited takes no
\* further step, so it handles no request; and a process whose connection
\* succeeded has not exited.
C15_FatalStartup ==
  [][/\ (~proc'.uri /\ proc'.at # "checkUri")
          => (ExitedWith("Missing MONGODB_URI environment variable"))'
     /\ proc'.connect = "rejected" => (ExitedWith("Failed to connect to MongoDB"))'
     /\ proc'.connect = "resolved" => proc'.at = "running"
     /\ proc.at = "exited" => UNCHANGED vars]_vars

\* C15 witness: the process exited on a failed connection after it had
\* answered a request
C15_Witness ==
  /\ ExitedWith("Failed to connect to MongoDB")
  /\ proc.connect = "rejected"
  /\ pc = "done"
  /\ res.status = 400

(***************************************************************************)
(* Claims about the handlers (specification Spec)                          *)
(***************************************************************************)
\* The persistence call op of the step returned
Returned(op) ==
  /\ Len(calls') = Len(calls) + 1
  /\ calls'[Len(calls')] = [op |-> op, threw |-> NoErr]

Pending == Str(<<"pending">>)

\* C16: a POST /tasks whose payload passed validateTaskInput and whose
\* Task.create returned is answered 201 with the created Task; the store
\* gains exactly that Task, its id is the id of no Task stored before, and
\* its status is the status of the payload as received, 'pending' when the
\* payload has none.
C16_Created ==
  [][(pc = "handler" /\ req.route = PostTasks /\ Returned("create"))
       => /\ res'.status = 201
          /\ store' = store \cup {res'.body.task}
          /\ res'.body.task \notin store
          /\ \A task \in store : task.id # res'.body.task.id
          /\ res'.body.task.status = IF K("status") \in OwnKeys(payload)
                                     THEN OwnValue(payload, K("status")) ELSE Pending]_vars
RecognizedFields == {"title", "status", "description"}

\* C17: a PUT for a stored Task whose payload passed validateTaskUpdate and
\* whose findByIdAndUpdate returned is answered 200 with the updated Task:
\* each recognized field of the payload as received has its sanitized value,
\* the other fields, the id and createdAt are those of the Task before, the
\* Task replaces the one before and every other Task of the store stays.
C17_Updated ==
  [][(pc = "handler" /\ req.route = PutTask /\ findById(req.id) # {}
      /\ Returned("findByIdAndUpdate"))
       => \E task \in findById(req.id) :
            LET updated == res'.body.task
            IN  /\ res'.status = 200
                /\ store' = (store \ {task}) \cup {updated}
                /\ updated.id = task.id
                /\ updated.createdAt = task.createdAt
                /\ \A k \in RecognizedFields :
                     updated[k] = IF K(k) \in OwnKeys(payload)
                                  THEN sanitizeValue(OwnValue(payload, K(k)))
                                  ELSE task[k]]_vars

\* C17 witness: a PUT gave one of two stored Tasks a title that the
\* sanitizer had changed
C17_Witness ==
  /\ req.route = PutTask
  /\ pc = "done"
  /\ res.status = 200
  /\ Cardinality(store) = 2
  /\ res.body.task \in store
  /\ K("title") \in OwnKeys(payload)
  /\ res.body.task.title # OwnValue(payload, K("title"))
  /\ res.body.task.title = sanitizeValue(OwnValue(payload, K("title")))
\* The ids of the Tasks deleted so far: the store generated ObjectId(1) to
\* ObjectId(nextId - 1), each for a Task it held
Deleted == {ObjectId(n) : n \in 1..(nextId - 1)} \ {task.id : task \in store}

NoCallThrew == \A i \in 1..Len(calls') : calls'[i].threw = NoErr

\* The step answers a request for the id of a deleted Task and no
\* persistence call of the request failed
AnswersDeleted ==
  /\ req.route \in IdRoutes
  /\ req.id \in Deleted
  /\ pc # "done" /\ pc' = "done"
  /\ NoCallThrew

\* A DELETE for a stored Task is answered 200 {message: 'Task deleted'} and
\* removes that Task and no other; a deleted id stays deleted
DeleteRemoves ==
  /\ (pc = "handler" /\ req.route = DeleteTask /\ findById(req.id) # {}
      /\ Returned("findByIdAndDelete"))
       => /\ res' = Sent(200, [message |-> "Task deleted"])
          /\ \E task \in store : task.id = req.id /\ store' = store \ {task}
          /\ req.id \in Deleted'
  /\ Deleted \subseteq Deleted'

\* C18 as stated: after the DELETE of a stored Task, every GET, PUT and
\* DELETE for its id is answered 404.
C18_DeletedStaysGone ==
  [][/\ DeleteRemoves
     /\ AnswersDeleted => res'.status = 404]_vars

\* C18: after the DELETE of a stored Task, every GET and DELETE for its id,
\* and every PUT for it whose payload passes validateTaskUpdate, is answered
\* 404 {error: 'Task not found'} when its persistence call returns; a PUT
\* whose payload is rejected is answered 400; none of them changes the
\* store, so the Task is never stored again.
C18_DeletedStaysGoneOnceValidated ==
  [][/\ DeleteRemoves
     /\ AnswersDeleted
          => /\ store' = store
             /\ IF handlerRan'
                THEN res' = Sent(404, [error |-> "Task not found"])
                ELSE req.route = PutTask /\ res'.status = 400]_vars

\* C18 witness: a second DELETE for the id of a deleted Task was answered 404
C18_Witness ==
  /\ req.route = DeleteTask
  /\ req.id \in Deleted
  /\ pc = "done"
  /\ res.status = 404
  /\ store # {}
\* The validators of the route let the request through: the id is valid
\* where the route has one, and the validator of the body found no error in
\* the payload and left its sanitized copy in req.body
LetThrough ==
  /\ req.route \in IdRoutes => isValid(req.id)
  /\ req.route = PostTasks
       => /\ validateTaskInput(payload) = [body |-> req.body, threw |-> FALSE, errors |-> <<>>]
  /\ req.route = PutTask
       => /\ validateTaskUpdate(payload) = [body |-> req.body, threw |-> FALSE, errors |-> <<>>]

\* C19: a PUT with a malformed id is answered 400 {error: 'Invalid task ID
\* format'} by validateObjectId whatever its body, which is left as it was
\* received; validateTaskUpdate runs only for a valid id and on the body as
\* received, the handler only when the validators let the request through,
\* and a persistence call is made only by the handler.
C19_StagesInOrder ==
  /\ (req.route = PutTask /\ pc # "validateObjectId" /\ ~isValid(req.id))
       => /\ pc = "done"
          /\ res = Sent(400, [error |-> "Invalid task ID format"])
          /\ req.body = payload
  /\ pc = "validateTaskUpdate" => (isValid(req.id) /\ req.body = payload)
  /\ pc = "validateTaskInput" => req.body = payload
  /\ (pc = "handler" \/ handlerRan) => LetThrough
  /\ calls # <<>> => handlerRan

\* C19 witness: a PUT with a malformed id and a body that the validator
\* would change and reject was answered for its id
C19_Witness ==
  /\ req.route = PutTask
  /\ pc = "done"
  /\ ~isValid(req.id)
  /\ validateTaskUpdate(payload).errors # <<>>
  /\ validateTaskUpdate(payload).body # payload
  /\ res = Sent(400, [error |-> "Invalid task ID format"])
\* C20: the middleware asyncHandler(fn) of GET /tasks calls fn for the
\* request; when the promise of fn rejects with e, next is called once, with
\* e itself, and the error handler gets e; when it resolves, the wrapper
\* does not call next and the response is the one fn sent.
C20_RejectionForwardedOnce ==
  [][(pc = "handler" /\ req.route = GetTasks)
       => /\ handlerRan'
          /\ Len(calls') = 1
          /\ LET e == calls'[1].threw
             IN  IF e # NoErr
                 THEN nexts' = <<e>> /\ err' = e /\ pc' = "errorHandler" /\ res' = NoRes
                 ELSE nexts' = <<>> /\ pc' = "done" /\ res' = Sent(200, [tasks |-> store])]_vars

\* C20 witness: the rejection of Task.find() with a MongoNetworkError was
\* given to next and answered by the error handler
C20_Witness ==
  /\ req.route = GetTasks
  /\ pc = "done"
  /\ nexts = <<Failure("MongoNetworkError", "connect ECONNREFUSED")>>
  /\ err = nexts[1]
  /\ res.status = 503

(***************************************************************************)
(* Claims about the stored Tasks (specification Spec)                      *)
(***************************************************************************)
\* C21: every Task of the store has a title that is a string with a
\* character other than whitespace, and a status that is 'pending' or
\* 'completed'.
C21_StoredTasksValid ==
  \A task \in store :
    /\ task.title.t = "string"
    /\ trim(task.title.s) # <<>>
    /\ task.status \in {Str(status) : status \in StatusValues}

\* C21 witness: the store holds two Tasks, one completed, after a PUT that
\* changed a Task
C21_Witness ==
  /\ Cardinality(store) = 2
  /\ \E task \in store : task.status = Str(<<"completed">>)
  /\ req.route = PutTask
  /\ pc = "done"
  /\ res.status = 200
HasTag(s) ==
  \E i, j \in 1..Len(s) :
    /\ i + 1 < j
    /\ s[i] = "<" /\ s[j] = ">"
    /\ \A k \in (i + 1)..(j - 1) : s[k] # ">"

HasOperatorToken(s) == \E i \in 1..(Len(s) - 1) : s[i] = "$" /\ IsWord(s[i + 1])

Clean(v) == v.t = "string" => (~HasTag(v.s) /\ ~HasOperatorToken(v.s))

\* C23: no title or description of a stored Task has a markup tag or a
\* '$'-prefixed token, and the body that the handler of POST /tasks or PUT
\* /tasks/:id gives to create or findByIdAndUpdate is the sanitized payload,
\* with no key beginning with '$' at any depth.
C23_StoreSeesSanitized ==
  /\ \A task \in store : Clean(task.title) /\ Clean(task.description)
  /\ ((pc = "handler" \/ handlerRan) /\ req.route \in {PostTasks, PutTask})
       => /\ req.body = sanitizeObject(payload)
          /\ NoDollarKey(req.body)

\* C23 witness: a Task was created from a payload with a '$' key and a
\* title holding a tag and a '$' token
C23_Witness ==
  /\ req.route = PostTasks
  /\ pc = "done"
  /\ res.status = 201
  /\ DollarKey \in OwnKeys(payload)
  /\ HasTag(OwnValue(payload, K("title")).s)
  /\ HasOperatorToken(OwnValue(payload, K("title")).s)
  /\ res.body.task \in store
\* C24: a request whose persistence call failed is answered with what
\* errorHandler makes of the failure, on every route.
C24_FailuresNormalized ==
  (pc = "done" /\ calls # <<>> /\ calls[Len(calls)].threw # NoErr)
    => res = Response(calls[Len(calls)].threw, env)

(***************************************************************************)
(* Further claims about the sanitizer and the validators                   *)
(***************************************************************************)
\* out has the shape of in: a number, boolean, null or undefined is the
\* same value, a string is a string, an array is an array of the same
\* length, and an object is an object with the keys of in that do not begin
\* with '$', each value having the shape of the one of in
RECURSIVE SameShape(_, _)
SameShape(in, out) ==
  CASE in.t = "string" -> out.t = "string"
    [] in.t = "array" ->
         /\ out.t = "array"
         /\ Len(out.e) = Len(in.e)
         /\ \A i \in 1..Len(in.e) : SameShape(in.e[i], out.e[i])
    [] in.t = "object" ->
         /\ out.t = "object"
         /\ OwnKeys(out) = {k \in OwnKeys(in) : ~startsWithDollar(k)}
         /\ \A k \in OwnKeys(out) : SameShape(OwnValue(in, k), OwnValue(out, k))
    [] OTHER -> out = in

\* C25: the req.body that a validator leaves, sanitizeObject of the body
\* received, has the shape of the body received.
C25_ShapeKept ==
  (ValidatorRan /\ payload # Undefined) => SameShape(payload, req.body)

\* C26: a request makes at most one persistence call, and after a call
\* that failed it makes no other: it is on its way to the error handler or
\* answered with an error status.
C26_NoRetry ==
  /\ Len(calls) <= 1
  /\ (calls # <<>> /\ calls[1].threw # NoErr)
       => \/ pc = "errorHandler"
          \/ pc = "done" /\ res.status \in 400..599

\* A request whose one persistence call failed has been answered
C26_Witness ==
  /\ pc = "done"
  /\ Len(calls) = 1
  /\ calls[1].threw \in StoreFailures
  /\ res.status \in {400, 500}

\* C27: sanitizeString is idempotent: applied to its own output it returns
\* that output unchanged.
C27_Idempotent ==
  sanitized # NotSanitized => sanitizeString(sanitized) = sanitized

\* An input that the passes changed, with an output that still holds a "<"
\* and a "$", has been sanitized
C27_Witness ==
  /\ sanitized # NotSanitized
  /\ sanitized # str
  /\ Contains(sanitized, <<"<">>)
  /\ Contains(sanitized, <<"$">>)

\* C28: whatever the body, a validator that ran has either sent one 400
\* 'Validation failed' response or called next() without an argument, and
\* not thrown.
C28_RejectOrNext ==
  ValidatorRan =>
    \/ pc = "done" /\ res.status = 400 /\ res.body.error = "Validation failed"
    \/ pc = "handler" /\ res = NoRes /\ err = NoErr

\* C29: every response of errorHandler has a status from 400 to 599,
\* whatever the failure, a statusCode outside that range included.
C29_ErrorStatus ==
  Handled => res.status \in 400..599

\* C30: the process listens for requests only once the connection is
\* established, and every persistence call of a handler is issued over an
\* established connection, never while the attempt is pending or after it
\* failed.
C30_ConnectedBeforeServing ==
  /\ proc.at = "running" => proc.connect = "resolved"
  /\ req # Idle => proc.connect = "resolved"
  /\ calls # <<>> => proc.connect = "resolved"

====
